---- MODULE Spec2Model ----
(***************************************************************************)
(* Model of route_analyzer.py: the distance cache, the retrying distance   *)
(* client get_distance_truck, and the thread-pool driven builds.           *)
(*                                                                         *)
(* Units.  A coordinate is an integer number of 1e-7 degrees; a formatted  *)
(* coordinate ("%.6f") is an integer number of 1e-6 degrees.  A distance   *)
(* returned by the routing service is an integer number of metres; a       *)
(* distance in km rounded to two decimals is an integer number of 0.01 km. *)
(***************************************************************************)
EXTENDS Integers, Sequences, FiniteSets, TLC

\* ---------------------------------------------------------------- bounds
\* Largest max_attempts a direct caller of get_distance_truck passes.
MaxAttemptsArg == 4
\* Number of direct calls of get_distance_truck one process makes.
MaxInvocations == 3
\* Number of points of the registry a build works on.
NumPoints == 4
\* Largest max_workers a build is started with.
MaxWorkers == 2
\* Number of processes (builds) started one after the other.
MaxRuns == 2
\* Work items of the builds that the environment lets fail (by failed
\* external calls, any number of them, or by an error raised in the worker).
MaxFaults == 1

\* ------------------------------------------------------ program constants
\* get_distance_truck(coord1, coord2, max_attempts=3)
DefaultMaxAttempts == 3
\* wait = min(15, (attempt + 1) * 5)
BackoffCeiling == 15
BackoffStep == 5
\* time.sleep(2) after an unexpected error
TransientWait == 2
\* if save_counter >= 5
SnapshotEvery == 5
\* for i in range(5): the attempts to write the final artifact
ExcelAttempts == 5

\* "None", the result of a failed resolution (distances are >= 0).
None == -1

\* ------------------------------------------------------------- the points
\* The registry `points` (name -> (lat, lon)), in insertion order.
AllNames == <<"A", "B", "C", "D", "E">>

points ==
  [A |-> <<557558004, 376173001>>,
   B |-> <<559000002, 374000003>>,
   C |-> <<556000000, 378000004>>,
   D |-> <<554500003, 375500002>>,
   E |-> <<558200001, 379100004>>]

PointNames == {AllNames[k] : k \in 1..Len(AllNames)}

\* ------------------------------------------------------------ _get_cache_key
\* f"{x:.6f}": round to six decimals, ties to even.
Fmt6(x) ==
  LET q == x \div 10
      r == x % 10
  IN  IF r > 5 \/ (r = 5 /\ q % 2 = 1) THEN q + 1 ELSE q

\* The formatted string "lat1,lon1-lat2,lon2"; md5 of it is modelled as the
\* string itself (md5 taken as collision free).
_get_cache_key(coord1, coord2) ==
  <<Fmt6(coord1[1]), Fmt6(coord1[2]), Fmt6(coord2[1]), Fmt6(coord2[2])>>

KeyOf(a, b) == _get_cache_key(points[a], points[b])

\* ------------------------------------------------------- routing service
\* coord[::-1]
Reversed(c) == <<c[2], c[1]>>

Abs(x) == IF x < 0 THEN 0 - x ELSE x

\* The distance (metres) the routing service answers with for a route
\* between two (lon, lat) positions: different pairs are at different
\* distances, and the way back may be longer than the way there.
ServiceMeters(from, to) ==
  {(Abs(from[1] - to[1]) + Abs(from[2] - to[2])) \div 100
     + (IF from[2] > to[2] THEN 13 ELSE 0)}

\* round(dist_m / 1000, 2), in units of 0.01 km, ties to even.
Round2(dist_m) ==
  LET q == dist_m \div 10
      r == dist_m % 10
  IN  IF r > 5 \/ (r = 5 /\ q % 2 = 1) THEN q + 1 ELSE q

\* What can come back from client.directions: a route, an ApiError whose
\* lower-cased message contains any subset of the two phrases the code looks
\* for, or any other exception.
RATE == "rate limit"
NOROUTE == "could not find routable point"
Phrases == {RATE, NOROUTE}

Outcomes(from, to) ==
  [kind : {"ok"}, dist_m : ServiceMeters(from, to), msg : {{}}]
    \cup [kind : {"ApiError"}, dist_m : {0}, msg : SUBSET Phrases]
    \cup [kind : {"Exception"}, dist_m : {0}, msg : {{}}]

\* The branch of the except clauses an outcome takes.
Classify(o) ==
  IF o.kind = "ok" THEN "ok"
  ELSE IF o.kind = "ApiError"
       THEN IF RATE \in o.msg THEN "rate"
            ELSE IF NOROUTE \in o.msg THEN "noroute"
            ELSE "other"
       ELSE "unexpected"

\* The backoff without its ceiling.
MutRateWaitUncapped(attempt) == (attempt + 1) * BackoffStep

\* wait = min(15, (attempt + 1) * 5)
RateWait(attempt) ==
  IF (attempt + 1) * BackoffStep < BackoffCeiling
  THEN (attempt + 1) * BackoffStep
  ELSE BackoffCeiling

\* ------------------------------------------------------------------ state
VARIABLES
  distance_cache,   \* the global dict distance_cache: key -> km (0.01 km units)
  th,               \* th[0]: the frame of a direct call of get_distance_truck;
                    \* th[k], k > 0: work item k of the build (its future and
                    \* the frame of the pool thread that runs it)
  log,              \* what the direct caller's current invocation has done
  invocations,      \* direct calls of get_distance_truck made so far
  bpc,              \* where the main thread is in build_distance_matrix
  run,              \* number of the process that runs the build
  max_workers,      \* the argument of build_distance_matrix
  nthreads,         \* threads the ThreadPoolExecutor has spawned
  dist_df,          \* the DataFrame, indexed by <<i, j>>
  pairs_to_process, \* the work list
  yielded,          \* futures as_completed has handed to the main loop
  cur,              \* the item whose result the main loop is applying
  done,             \* the counter `done`
  save_counter,     \* the counter `save_counter`
  partial_csv,      \* distance_matrix_partial.csv
  cache_file,       \* distance_cache.json
  faults,           \* work items the environment has let fail so far
  prev,             \* how the previous process ended
  mode,             \* what the process builds: "matrix" or "map"
  route_cache,      \* the global dict route_cache: key -> route coordinates
  route_file,       \* route_cache.json
  processed,        \* the counter `processed` of create_route_map
  polylines,        \* the routes drawn on the map
  xl_i,             \* the loop variable `i` of the final write (lines 206-213)
  outfile,          \* the suffix of `outfile`: 0 is distance_matrix.xlsx,
                    \* k > 0 is distance_matrix_k.xlsx
  tried,            \* history: the names to_excel was called with, and
                    \* whether the name was locked
  saved_as,         \* the name the final artifact was written under, or None
  taken,            \* history: how often a pool thread has started item k
  applied,          \* history: how often the main loop has got the result
                    \* of item k from future.result()
  snapshots         \* history: how often this build has written
                    \* distance_matrix_partial.csv

cvars == <<distance_cache, th, log, invocations>>
bvars == <<bpc, run, max_workers, nthreads, dist_df, pairs_to_process, yielded,
           cur, done, save_counter, partial_csv, cache_file, faults, prev,
           mode, route_cache, route_file, processed, polylines,
           xl_i, outfile, tried, saved_as, taken, applied, snapshots>>
xvars == <<xl_i, outfile, tried, saved_as>>
hvars == <<taken, applied, snapshots>>
bvars_but_caches == <<bpc, run, max_workers, nthreads, dist_df,
                      pairs_to_process, yielded, cur, done, save_counter,
                      partial_csv, cache_file, faults, prev, mode, route_file,
                      processed, polylines, xvars, hvars>>
mapvars == <<mode, route_cache, route_file, processed, polylines>>
vars == <<cvars, bvars>>

\* Thread 0 is a direct caller of get_distance_truck.
Main == 0

names == SubSeq(AllNames, 1, NumPoints)
n == Len(names)
Idx == 1..n
MaxItems == (NumPoints * (NumPoints - 1)) \div 2
Items == 1..MaxItems

IdleFrame ==
  [pc |-> "idle", a |-> "A", b |-> "A", attempt |-> 0,
   max_attempts |-> 0, wait |-> 0, ret |-> None, charged |-> FALSE,
   hit |-> FALSE, route |-> <<>>, ok |-> FALSE]

\* A resolution that does not store its result.
MutCachePutSkip(cache, key, val) == cache

\* distance_cache[cache_key] = dist_km
CachePut(cache, key, val) ==
  [k \in DOMAIN cache \cup {key} |-> IF k = key THEN val ELSE cache[k]]

\* A lookup that never finds the key.
MutCacheHitNever(cache, key) == FALSE

\* if cache_key in distance_cache
CacheHit(cache, key) == key \in DOMAIN cache

\* A loop that makes one attempt more than max_attempts.
MutLoopHeadOneMore(f) ==
  IF f.attempt <= f.max_attempts
  THEN [f EXCEPT !.pc = "call"]
  ELSE [f EXCEPT !.pc = "ret", !.ret = None]

\* `for attempt in range(max_attempts)` reached with f.attempt: the next
\* external call is issued, or the loop is over and None is returned.
LoopHead(f) ==
  IF f.attempt < f.max_attempts
  THEN [f EXCEPT !.pc = "call"]
  ELSE [f EXCEPT !.pc = "ret", !.ret = None]

\* return dist_km
OnSuccess(f, dist_km) == [f EXCEPT !.pc = "ret", !.ret = dist_km]

\* "rate limit" in msg: sleep min(15, (attempt + 1) * 5), continue
OnRateLimit(f) == [f EXCEPT !.pc = "sleep", !.wait = RateWait(f.attempt)]

\* A no-route failure handled as a transient one.
MutOnNoRouteRetry(f) == [f EXCEPT !.pc = "sleep", !.wait = TransientWait]

\* "could not find routable point" in msg: return None
OnNoRoute(f) == [f EXCEPT !.pc = "ret", !.ret = None]

\* any other ApiError: return None
OnOtherApiError(f) == [f EXCEPT !.pc = "ret", !.ret = None]

\* An unexpected error handled as a permanent one.
MutOnUnexpectedGiveUp(f) == [f EXCEPT !.pc = "ret", !.ret = None]

\* except Exception: sleep 2, continue
OnUnexpected(f) == [f EXCEPT !.pc = "sleep", !.wait = TransientWait]

\* `continue` after the sleep
Continue(f) == LoopHead([f EXCEPT !.attempt = f.attempt + 1, !.wait = 0])

LogEntry(ev, cls, w) == [ev |-> ev, cls |-> cls, w |-> w]

\* The log is kept for the direct caller only.
Logged(t, e) == IF t = Main THEN Append(log, e) ELSE log

\* The environment's failures are unbounded for a direct caller; over the
\* builds at most MaxFaults work items are charged with failures.
MayFail(t) == t = Main \/ th[t].charged \/ faults < MaxFaults
Fault(t) == IF t = Main \/ th[t].charged THEN faults ELSE faults + 1
Charged(t, f) == IF t = Main THEN f ELSE [f EXCEPT !.charged = TRUE]

\* History: whether the key was in the cache when the call looked it up.
Looked(f, present) == [f EXCEPT !.hit = present]

\* get_distance_truck, lines 73-78: the cache lookup under cache_lock.
CacheCheck(t) ==
  LET f == th[t]
      key == KeyOf(f.a, f.b)
  IN  /\ f.pc = "check"
      /\ th' = [th EXCEPT ![t] =
                 Looked(IF CacheHit(distance_cache, key)
                        THEN [f EXCEPT !.pc = "ret", !.ret = distance_cache[key]]
                        ELSE LoopHead(f),
                        key \in DOMAIN distance_cache)]
      /\ UNCHANGED <<distance_cache, log, invocations, bvars>>

\* client.directions(coordinates=[coord1[::-1], coord2[::-1]], ...) comes
\* back with outcome o (lines 79-114).
Call(t) ==
  LET f == th[t]
      key == KeyOf(f.a, f.b)
  IN  /\ f.pc = "call"
      /\ \E o \in Outcomes(Reversed(points[f.a]), Reversed(points[f.b])) :
           LET cls == Classify(o)
           IN  /\ cls # "ok" => MayFail(t)
               /\ faults' = IF cls # "ok" THEN Fault(t) ELSE faults
               /\ th' = [th EXCEPT ![t] =
                          CASE cls = "ok" -> OnSuccess(f, Round2(o.dist_m))
                            [] cls = "rate" -> Charged(t, OnRateLimit(f))
                            [] cls = "noroute" -> Charged(t, OnNoRoute(f))
                            [] cls = "other" -> Charged(t, OnOtherApiError(f))
                            [] OTHER -> Charged(t, OnUnexpected(f))]
               /\ distance_cache' =
                    IF cls = "ok"
                    THEN CachePut(distance_cache, key, Round2(o.dist_m))
                    ELSE distance_cache
               /\ log' = Logged(t, LogEntry("call", cls, 0))
      /\ UNCHANGED <<invocations, bpc, run, max_workers, nthreads, dist_df,
                     pairs_to_process, yielded, cur, done, save_counter,
                     partial_csv, cache_file, prev, mapvars, xvars, hvars>>

\* time.sleep(wait) is over; continue.
SleepDone(t) ==
  LET f == th[t]
  IN  /\ f.pc = "sleep"
      /\ th' = [th EXCEPT ![t] = Continue(f)]
      /\ log' = Logged(t, LogEntry("sleep", "", f.wait))
      /\ UNCHANGED <<distance_cache, invocations, bvars>>

\* The points a direct caller asks about.
ClientPoints == {"A", "B"}

\* A direct call get_distance_truck(points[a], points[b], m).
Invoke ==
  /\ th[Main].pc \in {"idle", "ret"}
  /\ invocations < MaxInvocations
  /\ invocations' = invocations + 1
  /\ \E a \in ClientPoints, b \in ClientPoints, m \in 0..MaxAttemptsArg :
       th' = [th EXCEPT ![Main] =
               [IdleFrame EXCEPT !.pc = "check", !.a = a, !.b = b,
                                 !.max_attempts = m]]
  /\ log' = <<>>
  /\ UNCHANGED <<distance_cache, bvars>>

\* ----------------------------------------------------------- the matrix
\* Cell values of the DataFrame.
SELF == [t |-> "X", v |-> 0]
UNRES == [t |-> "-", v |-> 0]
NaN == [t |-> "nan", v |-> 0]
Num(d) == [t |-> "float", v |-> d]
Str(d) == [t |-> "str", v |-> d]

\* A cell that holds a distance: a float written by this process, or the
\* text of one read back from the partial file.
IsNumeric(c) == c.t \in {"float", "str"}

\* DataFrame(index=names, columns=names, dtype=object); iloc[i, i] = "X"
EmptyMatrix == [p \in Idx \X Idx |-> IF p[1] = p[2] THEN SELF ELSE NaN]

\* to_csv: what a cell becomes in the file.
ToCsv(c) ==
  IF c.t \in {"float", "str"} THEN [t |-> "number", v |-> c.v]
  ELSE IF c.t = "nan" THEN [t |-> "empty", v |-> 0]
  ELSE c

\* read_csv: every column holds the "X" of the diagonal, so it is read as
\* text; an empty field is read as NaN.
FromCsv(x) ==
  IF x.t = "number" THEN Str(x.v)
  ELSE IF x.t = "empty" THEN NaN
  ELSE x

NoFile == [exists |-> FALSE, cells |-> [p \in Idx \X Idx |-> ToCsv(NaN)]]
\* A cache file: whether it exists, whether json.load can parse it, and the
\* dict it holds.
NoCacheFile == [exists |-> FALSE, valid |-> FALSE, data |-> <<>>]

\* dist_df.to_csv("distance_matrix_partial.csv")
Snapshot(df) == [exists |-> TRUE, cells |-> [p \in Idx \X Idx |-> ToCsv(df[p])]]

\* _save_cache: json.dump(distance_cache)
SaveCache(cache) == [exists |-> TRUE, valid |-> TRUE, data |-> cache]

\* A build that does not load the cache file.
MutLoadCacheKeepsMemory(file, cache) == cache

\* _load_cache, lines 41-42: json.load, or the dict as it is when the file
\* is not found or cannot be parsed.
LoadCache(file, cache) ==
  IF file.exists /\ file.valid THEN file.data ELSE cache

\* _load_cache, lines 43-44: reached only when distance_cache.json was read.
LoadRoutes(file, rfile, routes) ==
  IF file.exists /\ file.valid /\ rfile.exists /\ rfile.valid
  THEN rfile.data
  ELSE routes

\* _load_cache handles FileNotFoundError only (line 46): the error json.load
\* raises on a file it cannot parse leaves _load_cache and its caller.
LoadRaises(file, rfile) ==
  \/ file.exists /\ ~file.valid
  \/ file.exists /\ file.valid /\ rfile.exists /\ ~rfile.valid

\* _save_cache: json.dump(route_cache)
SaveRoutes(routes) == [exists |-> TRUE, valid |-> TRUE, data |-> routes]

\* Lines 144-155: the fresh matrix, overlaid row by row with the partial file.
LoadMatrix(file) ==
  IF file.exists THEN [p \in Idx \X Idx |-> FromCsv(file.cells[p])]
  ELSE EmptyMatrix

\* Loops that visit every cell (i, j), whichever side of the diagonal.
MutPairsFromBothOrders(i, j) ==
  [x \in 1..((n - i + 1) * n) |-> <<i + ((x - 1) \div n), ((x - 1) % n) + 1>>]

\* The pairs (i, j), i < j, in the order of the two nested loops.
RECURSIVE PairsFrom(_, _)
PairsFrom(i, j) ==
  IF i > n THEN <<>>
  ELSE IF j > n THEN PairsFrom(i + 1, i + 2)
  ELSE <<(<<i, j>>)>> \o PairsFrom(i, j + 1)

AllPairs == PairsFrom(1, 2)

\* A test that takes only the empty cells.
MutNeedsWorkEmptyOnly(c) == c.t = "nan"

\* pd.isna(cell) or cell in ["-", ""]
NeedsWork(c) == c.t \in {"nan", "-"}

\* Lines 158-162.
WorkList(df) == SelectSeq(AllPairs, LAMBDA p : NeedsWork(df[p]))

total == Len(pairs_to_process)

\* Lines 138-169: everything the main thread does before the pool exists.
BuildStart ==
  /\ bpc = "start"
  /\ mode = "matrix"
  /\ distance_cache' = LoadCache(cache_file, distance_cache)
  /\ route_cache' = LoadRoutes(cache_file, route_file, route_cache)
  /\ IF LoadRaises(cache_file, route_file)
     THEN /\ bpc' = "crashed"
          /\ UNCHANGED <<dist_df, pairs_to_process>>
     ELSE LET df == LoadMatrix(partial_csv)
          IN  /\ dist_df' = df
              /\ pairs_to_process' = WorkList(df)
              /\ bpc' = IF Len(WorkList(df)) = 0 THEN "returned" ELSE "submit"
  /\ done' = 0
  /\ save_counter' = 0
  /\ UNCHANGED <<th, log, invocations, run, max_workers, nthreads, yielded, cur,
                 partial_csv, cache_file, faults, prev, mode, route_file,
                 processed, polylines, xvars, hvars>>

\* A pool that starts a thread for every submitted item.
MutAdjustThreadCountUnbounded(num_threads, limit) == num_threads + 1

\* ThreadPoolExecutor._adjust_thread_count: a thread is started for a
\* submitted item while fewer than max_workers threads exist.
AdjustThreadCount(num_threads, limit) ==
  IF num_threads < limit THEN num_threads + 1 ELSE num_threads

Submitted == {k \in Items : th[k].pc # "idle"}

\* One executor.submit(_process_distance_pair, pair) of line 177.
Submit ==
  /\ bpc = "submit"
  /\ LET k == Cardinality(Submitted) + 1
         p == pairs_to_process[k]
     IN  /\ th' = [th EXCEPT ![k] =
                    [IdleFrame EXCEPT !.pc = "queued", !.a = names[p[1]],
                                      !.b = names[p[2]],
                                      !.max_attempts = DefaultMaxAttempts]]
         /\ bpc' = IF k = total THEN "collect" ELSE "submit"
  /\ nthreads' = AdjustThreadCount(nthreads, max_workers)
  /\ UNCHANGED <<distance_cache, log, invocations, run, max_workers, dist_df,
                 pairs_to_process, yielded, cur, done, save_counter,
                 partial_csv, cache_file, faults, prev, mapvars, xvars, hvars>>

\* Items a pool thread is executing.
Running ==
  {k \in Items : th[k].pc \in {"check", "call", "sleep", "ret", "rcheck", "rcall"}}

\* Items inside client.directions.
InFlight == {k \in Items : th[k].pc \in {"call", "rcall"}}

\* A pool thread that has nothing to do takes the oldest queued item and
\* enters _process_distance_pair (lines 120-124) or _process_route_pair
\* (lines 219-224).
Take(k) ==
  /\ th[k].pc = "queued"
  /\ \A j \in Items : j < k => th[j].pc # "queued"
  /\ Cardinality(Running) < nthreads
  /\ th' = [th EXCEPT ![k].pc = IF mode = "map" THEN "rcheck" ELSE "check"]
  /\ taken' = [taken EXCEPT ![k] = @ + 1]
  /\ UNCHANGED <<distance_cache, log, invocations, bpc, run, max_workers,
                 nthreads, dist_df, pairs_to_process, yielded, cur, done,
                 save_counter, partial_csv, cache_file, faults, prev, mapvars,
                 xvars, applied, snapshots>>

\* The future of a work item that is over: the locals of the call are gone.
Returned(f, how) ==
  [IdleFrame EXCEPT !.pc = how, !.a = f.a, !.b = f.b, !.hit = f.hit,
                    !.route = IF how = "done" THEN f.route ELSE <<>>,
                    !.ok = (how = "done" /\ f.ok),
                    !.ret = IF how = "done" THEN f.ret ELSE None]

\* _process_distance_pair, lines 126-131: the worker prints and returns
\* (i, j, dist) or (i, j, "-"); an error raised here ends up in the future.
\* Likewise the end of _process_route_pair (lines 228, 245-250).
Finish(k) ==
  /\ th[k].pc = "ret"
  /\ \/ /\ th' = [th EXCEPT ![k] = Returned(th[k], "done")]
        /\ UNCHANGED faults
     \/ /\ MayFail(k)
        /\ faults' = Fault(k)
        /\ th' = [th EXCEPT ![k] = Returned(th[k], "raised")]
  /\ UNCHANGED <<distance_cache, log, invocations, bpc, run, max_workers,
                 nthreads, dist_df, pairs_to_process, yielded, cur, done,
                 save_counter, partial_csv, cache_file, prev, mapvars, xvars, hvars>>

\* The third component of the tuple _process_distance_pair returns.
Result(f) == IF f.ret # None THEN Num(f.ret) ELSE UNRES

\* A write that reaches the upper triangle only.
MutWriteCellUpperOnly(df, p, val) ==
  IF p[1] < p[2] THEN [df EXCEPT ![p] = val] ELSE df

\* dist_df.iloc[i, j] = result
WriteCell(df, p, val) == [df EXCEPT ![p] = val]

\* The second write going to the same cell as the first.
MutMirroredSame(p) == p

\* dist_df.iloc[j, i]: the mirror of cell (i, j)
Mirrored(p) == <<p[2], p[1]>>

\* A worker's error that ends the result loop.
MutAfterWorkerErrorAbort == "returned"

\* except Exception (lines 196-198): the error is printed and the loop goes on.
AfterWorkerError == "collect"

\* as_completed hands over a finished future; future.result() raises, or
\* the first cell is written (lines 179-182, 196-198).
Collect(k) ==
  /\ bpc = "collect"
  /\ mode = "matrix"
  /\ k \in 1..total
  /\ k \notin yielded
  /\ th[k].pc \in {"done", "raised"}
  /\ yielded' = yielded \cup {k}
  /\ applied' = [applied EXCEPT ![k] = @ + 1]
  /\ IF th[k].pc = "raised"
     THEN /\ done' = done + 1
          /\ bpc' = AfterWorkerError
          /\ UNCHANGED <<dist_df, cur>>
     ELSE /\ dist_df' = WriteCell(dist_df, pairs_to_process[k], Result(th[k]))
          /\ cur' = k
          /\ bpc' = "mirror"
          /\ UNCHANGED done
  /\ UNCHANGED <<cvars, run, max_workers, nthreads, pairs_to_process,
                 save_counter, partial_csv, cache_file, faults, prev, mapvars,
                 xvars, taken, snapshots>>

\* Lines 183-189: the mirror cell and the counters.
Mirror ==
  /\ bpc = "mirror"
  /\ dist_df' = WriteCell(dist_df, Mirrored(pairs_to_process[cur]), Result(th[cur]))
  /\ done' = done + 1
  /\ save_counter' = save_counter + 1
  /\ bpc' = IF save_counter + 1 >= SnapshotEvery THEN "save" ELSE "collect"
  /\ UNCHANGED <<cvars, run, max_workers, nthreads, pairs_to_process, yielded,
                 cur, partial_csv, cache_file, faults, prev, mapvars, xvars, hvars>>

\* Lines 190-194: the periodic snapshot and cache flush.
PeriodicSave ==
  /\ bpc = "save"
  /\ partial_csv' = Snapshot(dist_df)
  /\ snapshots' = snapshots + 1
  /\ save_counter' = 0
  /\ cache_file' = SaveCache(distance_cache)
  /\ route_file' = SaveRoutes(route_cache)
  /\ bpc' = "collect"
  /\ UNCHANGED <<cvars, run, max_workers, nthreads, dist_df, pairs_to_process,
                 yielded, cur, done, faults, prev, mode, route_cache,
                 processed, polylines, xvars, taken, applied>>

\* Lines 200-205: every future has been handed over; the final snapshot
\* and cache flush, and outfile = "distance_matrix.xlsx".
FinalSave ==
  /\ bpc = "collect"
  /\ mode = "matrix"
  /\ yielded = 1..total
  /\ partial_csv' = Snapshot(dist_df)
  /\ snapshots' = snapshots + 1
  /\ cache_file' = SaveCache(distance_cache)
  /\ route_file' = SaveRoutes(route_cache)
  /\ outfile' = 0
  /\ xl_i' = 0
  /\ bpc' = "excel"
  /\ UNCHANGED <<cvars, run, max_workers, nthreads, dist_df, pairs_to_process,
                 yielded, cur, done, save_counter, faults, prev, mode,
                 route_cache, processed, polylines, tried, saved_as, taken,
                 applied>>

\* A fallback that keeps the name it has just failed on.
MutNextOutfileSame(i, name) == name

\* outfile = f"distance_matrix_{i+1}.xlsx"
NextOutfile(i, name) == i + 1

\* return dist_df: what the caller of build_distance_matrix receives,
\* whatever name (or None) the artifact was written under.
ReturnValue(df, artifact) == [value |-> df, raised |-> FALSE]

\* One round of the loop of lines 206-213: dist_df.to_excel(outfile) writes
\* the file and the loop is left, or the target is locked (PermissionError)
\* and the next name is chosen; after the last round, line 215 returns.
ExcelWrite ==
  /\ bpc = "excel"
  /\ xl_i < ExcelAttempts
  /\ \E locked \in BOOLEAN :
       /\ tried' = Append(tried, [name |-> outfile, locked |-> locked])
       /\ IF locked
          THEN /\ outfile' = NextOutfile(xl_i, outfile)
               /\ xl_i' = xl_i + 1
               /\ bpc' = IF xl_i + 1 < ExcelAttempts THEN "excel" ELSE "returned"
               /\ UNCHANGED saved_as
          ELSE /\ saved_as' = outfile
               /\ bpc' = "returned"
               /\ UNCHANGED <<xl_i, outfile>>
  /\ UNCHANGED <<cvars, run, max_workers, nthreads, dist_df, pairs_to_process,
                 yielded, cur, done, save_counter, partial_csv, cache_file,
                 faults, prev, mapvars, hvars>>

\* ------------------------------------------------------------- the map
\* The geometry the routing service answers with: (lon, lat) positions from
\* the first requested position to the second.
ServiceGeometry(from, to) == <<from, to>>

\* [list(reversed(coord)) for coord in ...['geometry']['coordinates']]
RouteCoords(geometry) == [x \in 1..Len(geometry) |-> Reversed(geometry[x])]

\* Lines 256-271: create_route_map up to the pool.
MapStart ==
  /\ bpc = "start"
  /\ mode = "map"
  /\ distance_cache' = LoadCache(cache_file, distance_cache)
  /\ route_cache' = LoadRoutes(cache_file, route_file, route_cache)
  /\ IF LoadRaises(cache_file, route_file)
     THEN /\ bpc' = "crashed"
          /\ UNCHANGED pairs_to_process
     ELSE /\ pairs_to_process' = AllPairs
          /\ bpc' = "submit"
  /\ processed' = 0
  /\ polylines' = {}
  /\ UNCHANGED <<th, log, invocations, run, max_workers, nthreads, dist_df,
                 yielded, cur, done, save_counter, partial_csv, cache_file,
                 faults, prev, mode, route_file, xvars, hvars>>

\* _process_route_pair, lines 224-228: the lookup under cache_lock.
RouteCheck(k) ==
  LET f == th[k]
      key == KeyOf(f.a, f.b)
  IN  /\ f.pc = "rcheck"
      /\ th' = [th EXCEPT ![k] =
                 IF CacheHit(route_cache, key)
                 THEN [f EXCEPT !.pc = "ret", !.route = route_cache[key],
                                !.ok = TRUE]
                 ELSE [f EXCEPT !.pc = "rcall"]]
      /\ UNCHANGED <<distance_cache, log, invocations, bvars>>

\* _process_route_pair, lines 230-250: client.directions comes back; the
\* route is cached, or any exception gives (None, False).
RouteCall(k) ==
  LET f == th[k]
      key == KeyOf(f.a, f.b)
      coords == RouteCoords(ServiceGeometry(Reversed(points[f.a]),
                                            Reversed(points[f.b])))
  IN  /\ f.pc = "rcall"
      /\ \/ /\ th' = [th EXCEPT ![k] =
                       [f EXCEPT !.pc = "ret", !.route = coords, !.ok = TRUE]]
            /\ route_cache' = CachePut(route_cache, key, coords)
            /\ UNCHANGED faults
         \/ /\ MayFail(k)
            /\ faults' = Fault(k)
            /\ th' = [th EXCEPT ![k] =
                       Charged(k, [f EXCEPT !.pc = "ret", !.ok = FALSE])]
            /\ UNCHANGED route_cache
      /\ UNCHANGED <<distance_cache, log, invocations, bpc, run, max_workers,
                     nthreads, dist_df, pairs_to_process, yielded, cur, done,
                     save_counter, partial_csv, cache_file, prev, mode,
                     route_file, processed, polylines, xvars, hvars>>

\* if processed % 5 == 0: _save_cache()
SaveDue(count) == count % SnapshotEvery = 0

\* Lines 285-304: one round of the result loop of create_route_map.
MapCollect(k) ==
  /\ bpc = "collect"
  /\ mode = "map"
  /\ k \in 1..total
  /\ k \notin yielded
  /\ th[k].pc \in {"done", "raised"}
  /\ yielded' = yielded \cup {k}
  /\ processed' = processed + 1
  /\ applied' = [applied EXCEPT ![k] = @ + 1]
  /\ IF th[k].pc = "raised"
     THEN UNCHANGED <<polylines, cache_file, route_file>>
     ELSE /\ polylines' = IF th[k].ok /\ th[k].route # <<>>
                          THEN polylines \cup {th[k].route}
                          ELSE polylines
          /\ IF SaveDue(processed + 1)
             THEN /\ cache_file' = SaveCache(distance_cache)
                  /\ route_file' = SaveRoutes(route_cache)
             ELSE UNCHANGED <<cache_file, route_file>>
  /\ UNCHANGED <<cvars, bpc, run, max_workers, nthreads, dist_df,
                 pairs_to_process, cur, done, save_counter, partial_csv,
                 faults, prev, mode, route_cache, xvars, taken, snapshots>>

\* Lines 306-310: the final flush; the map is saved.
MapFinal ==
  /\ bpc = "collect"
  /\ mode = "map"
  /\ yielded = 1..total
  /\ cache_file' = SaveCache(distance_cache)
  /\ route_file' = SaveRoutes(route_cache)
  /\ bpc' = "returned"
  /\ UNCHANGED <<cvars, run, max_workers, nthreads, dist_df, pairs_to_process,
                 yielded, cur, done, save_counter, partial_csv, faults, prev,
                 mode, route_cache, processed, polylines, xvars, hvars>>

\* A new process: nothing in memory, the files as they were left.
NewProcess(how) ==
  /\ run' = run + 1
  /\ prev' = how
  /\ bpc' = "start"
  /\ distance_cache' = <<>>
  /\ th' = [t \in {Main} \cup Items |-> IdleFrame]
  /\ nthreads' = 0
  /\ dist_df' = EmptyMatrix
  /\ pairs_to_process' = <<>>
  /\ yielded' = {}
  /\ cur' = 0
  /\ done' = 0
  /\ save_counter' = 0
  /\ route_cache' = <<>>
  /\ processed' = 0
  /\ polylines' = {}
  /\ xl_i' = 0
  /\ outfile' = 0
  /\ tried' = <<>>
  /\ saved_as' = None
  /\ taken' = [k \in Items |-> 0]
  /\ applied' = [k \in Items |-> 0]
  /\ snapshots' = 0
  /\ UNCHANGED <<log, invocations, max_workers, partial_csv, cache_file, faults,
                 mode, route_file>>

\* The build has returned and the program is started again.
Restart ==
  /\ bpc = "returned"
  /\ run < MaxRuns
  /\ NewProcess("completed")

\* The process is interrupted in the middle of a build and started again.
\* (Before the first save an interruption leaves nothing behind: the new
\* process would start as the first one did.  During the final write it
\* leaves the files of a build that has returned.)
Interrupt ==
  /\ bpc \in {"submit", "collect", "mirror", "save"}
  /\ partial_csv.exists \/ cache_file.exists
  /\ run < MaxRuns
  /\ NewProcess("interrupted")

\* The memory of a process that has just started.
InitMemory ==
  /\ distance_cache = <<>>
  /\ th = [t \in {Main} \cup Items |-> IdleFrame]
  /\ log = <<>>
  /\ invocations = 0
  /\ run = 1
  /\ nthreads = 0
  /\ dist_df = EmptyMatrix
  /\ pairs_to_process = <<>>
  /\ yielded = {}
  /\ cur = 0
  /\ done = 0
  /\ save_counter = 0
  /\ partial_csv = NoFile
  /\ faults = 0
  /\ prev = "none"
  /\ route_cache = <<>>
  /\ processed = 0
  /\ polylines = {}
  /\ xl_i = 0
  /\ outfile = 0
  /\ tried = <<>>
  /\ saved_as = None
  /\ taken = [k \in Items |-> 0]
  /\ applied = [k \in Items |-> 0]
  /\ snapshots = 0

\* No cache file has been written yet.
InitCommon ==
  /\ InitMemory
  /\ cache_file = NoCacheFile
  /\ route_file = NoCacheFile

\* A process that calls get_distance_truck directly.
InitClient ==
  /\ InitCommon
  /\ bpc = "none"
  /\ mode = "none"
  /\ max_workers = 1

NextClient == Invoke \/ CacheCheck(Main) \/ Call(Main) \/ SleepDone(Main)

SpecClient == InitClient /\ [][NextClient]_vars

\* A step of the invocation in progress.
ClientStep == CacheCheck(Main) \/ Call(Main) \/ SleepDone(Main)

\* The thread that runs get_distance_truck is scheduled again and again:
\* the service answers every call and every sleep ends.
SpecClientFair == SpecClient /\ WF_vars(ClientStep)

\* A process that runs build_distance_matrix(max_workers) or
\* create_route_map(max_workers).
Init ==
  /\ InitCommon
  /\ bpc = "start"
  /\ mode \in {"matrix", "map"}
  /\ max_workers \in 1..MaxWorkers

Next ==
  \/ BuildStart
  \/ Submit
  \/ \E k \in Items : Take(k)
  \/ \E k \in Items : CacheCheck(k)
  \/ \E k \in Items : Call(k)
  \/ \E k \in Items : SleepDone(k)
  \/ \E k \in Items : Finish(k)
  \/ \E k \in Items : Collect(k)
  \/ Mirror
  \/ PeriodicSave
  \/ FinalSave
  \/ ExcelWrite
  \/ MapStart
  \/ \E k \in Items : RouteCheck(k)
  \/ \E k \in Items : RouteCall(k)
  \/ \E k \in Items : MapCollect(k)
  \/ MapFinal
  \/ Restart
  \/ Interrupt

Spec == Init /\ [][Next]_vars

\* ------------------------------------------ the caches and their files
\* What a process does to its two caches and their files, build after
\* build: _load_cache at the start of a build, an entry put by every
\* resolution that was not answered from the cache, _save_cache from time
\* to time and once more at the end.

\* The pairs these builds resolve.
CachePairs == {<<"A", "B">>, <<"A", "C">>}

\* round(dist_m / 1000, 2) of the route the service finds for a pair.
DistanceOf(p) ==
  Round2(CHOOSE m \in ServiceMeters(Reversed(points[p[1]]),
                                    Reversed(points[p[2]])) : TRUE)

\* route_coords of the route the service finds for a pair.
RouteOf(p) ==
  RouteCoords(ServiceGeometry(Reversed(points[p[1]]), Reversed(points[p[2]])))

\* json.dump that did not get to its end: a file json.load cannot parse.
Truncated == [exists |-> TRUE, valid |-> FALSE, data |-> <<>>]

\* The cache files an earlier process may have left behind.
DistanceFiles ==
  {NoCacheFile, Truncated, SaveCache(<<>>),
   SaveCache(CachePut(<<>>, KeyOf("A", "B"), DistanceOf(<<"A", "B">>)))}

RouteFiles ==
  {NoCacheFile, Truncated, SaveRoutes(<<>>),
   SaveRoutes(CachePut(<<>>, KeyOf("A", "B"), RouteOf(<<"A", "B">>)))}

\* _load_cache, called first thing by a build (lines 138, 257).
LoadStep ==
  /\ bpc = "start"
  /\ distance_cache' = LoadCache(cache_file, distance_cache)
  /\ route_cache' = LoadRoutes(cache_file, route_file, route_cache)
  /\ bpc' = IF LoadRaises(cache_file, route_file) THEN "crashed" ELSE "work"
  /\ UNCHANGED <<th, log, invocations, run, max_workers, nthreads, dist_df,
                 pairs_to_process, yielded, cur, done, save_counter,
                 partial_csv, cache_file, faults, prev, mode, route_file,
                 processed, polylines, xvars, hvars>>

\* A worker resolves a pair it did not find in the cache of its build:
\* distance_cache[cache_key] = dist_km (lines 75, 92-94) in a matrix build,
\* route_cache[cache_key] = route_coords (lines 226, 242-243) in a map build.
PutStep ==
  /\ bpc = "work"
  /\ \E p \in CachePairs :
       LET key == KeyOf(p[1], p[2])
       IN  IF mode = "matrix"
           THEN /\ ~CacheHit(distance_cache, key)
                /\ distance_cache' = CachePut(distance_cache, key, DistanceOf(p))
                /\ UNCHANGED route_cache
           ELSE /\ ~CacheHit(route_cache, key)
                /\ route_cache' = CachePut(route_cache, key, RouteOf(p))
                /\ UNCHANGED distance_cache
  /\ UNCHANGED <<th, log, invocations, bvars_but_caches>>

\* How far _save_cache gets: to the end, or to an error at the open or in
\* the json.dump of the first or of the second file (the error is caught
\* and printed, lines 57-58).
FlushOutcomes == {"ok", "open1", "dump1", "open2", "dump2"}

\* The two files after _save_cache.
Flushed(o, file, rfile, dcache, rcache) ==
  [d |-> IF o = "open1" THEN file
         ELSE IF o = "dump1" THEN Truncated
         ELSE SaveCache(dcache),
   r |-> IF o \in {"open1", "dump1", "open2"} THEN rfile
         ELSE IF o = "dump2" THEN Truncated
         ELSE SaveRoutes(rcache)]

\* _save_cache in the middle of a build (lines 194, 299).
FlushStep ==
  /\ bpc = "work"
  /\ \E o \in FlushOutcomes :
       LET files == Flushed(o, cache_file, route_file, distance_cache, route_cache)
       IN  /\ cache_file' = files.d
           /\ route_file' = files.r
  /\ UNCHANGED <<cvars, bpc, run, max_workers, nthreads, dist_df,
                 pairs_to_process, yielded, cur, done, save_counter,
                 partial_csv, faults, prev, mode, route_cache, processed,
                 polylines, xvars, hvars>>

\* _save_cache at the end of a build (lines 202, 307); the build returns.
FinishStep ==
  /\ bpc = "work"
  /\ \E o \in FlushOutcomes :
       LET files == Flushed(o, cache_file, route_file, distance_cache, route_cache)
       IN  /\ cache_file' = files.d
           /\ route_file' = files.r
  /\ bpc' = "returned"
  /\ UNCHANGED <<cvars, run, max_workers, nthreads, dist_df,
                 pairs_to_process, yielded, cur, done, save_counter,
                 partial_csv, faults, prev, mode, route_cache, processed,
                 polylines, xvars, hvars>>

\* The program run for both the matrix and the map: create_route_map is
\* called after build_distance_matrix has returned, in the same process.
NextBuild ==
  /\ bpc = "returned"
  /\ mode = "matrix"
  /\ mode' = "map"
  /\ bpc' = "start"
  /\ UNCHANGED <<cvars, run, max_workers, nthreads, dist_df,
                 pairs_to_process, yielded, cur, done, save_counter,
                 partial_csv, cache_file, faults, prev, route_cache,
                 route_file, processed, polylines, xvars, hvars>>

InitCache ==
  /\ InitMemory
  /\ cache_file \in DistanceFiles
  /\ route_file \in RouteFiles
  /\ bpc = "start"
  /\ mode \in {"matrix", "map"}
  /\ max_workers = 1

NextCache == LoadStep \/ PutStep \/ FlushStep \/ FinishStep \/ NextBuild

SpecCache == InitCache /\ [][NextCache]_vars

\* ------------------------------------------------------------- the claims
ItemPair(k) == pairs_to_process[k]
ItemKey(k) == KeyOf(th[k].a, th[k].b)

\* The cell on the other side of the diagonal.
Twin(p) == <<p[2], p[1]>>

\* The main loop is not between the two writes of item k's result.
Applied(k) == k \in yielded /\ ~(bpc = "mirror" /\ cur = k)

\* C1: whenever the main loop is between two completed results (and in the
\* returned matrix), every off-diagonal cell that holds a distance equals
\* its mirror cell.
C1_Symmetry ==
  bpc # "mirror" =>
    \A i \in Idx, j \in Idx :
      (i # j /\ IsNumeric(dist_df[<<i, j>>])) =>
        dist_df[<<i, j>>] = dist_df[<<j, i>>]

\* A resumed build that holds distances read back from the partial file
\* next to distances it has resolved itself.
C1_Witness ==
  /\ run = 2
  /\ bpc = "collect"
  /\ \E p \in Idx \X Idx, q \in Idx \X Idx :
       dist_df[p].t = "str" /\ dist_df[q].t = "float"

\* C2: the number of work items inside client.directions never exceeds
\* max_workers.
C2_ConcurrencyBound == Cardinality(InFlight) <= max_workers

\* max_workers = 2 calls in flight while further items wait in the queue.
C2_Witness ==
  /\ max_workers = 2
  /\ Cardinality(InFlight) = max_workers
  /\ \E k \in Items : th[k].pc = "queued"

\* The external calls and the sleeps of the direct caller's invocation.
Calls == SelectSeq(log, LAMBDA e : e.ev = "call")
Sleeps == SelectSeq(log, LAMBDA e : e.ev = "sleep")
CallsUpTo(k) == Cardinality({j \in 1..k : log[j].ev = "call"})

\* C3: a no-route failure is permanent: the call that fails with it is the
\* last thing the invocation does (no sleep, no further call follows it, so
\* that call is made exactly once) and the invocation has returned None, at
\* whatever attempt the failure occurs.
C3_NoRoutePermanent ==
  \A k \in 1..Len(log) :
    (log[k].ev = "call" /\ log[k].cls = "noroute") =>
      /\ k = Len(log)
      /\ th[Main].pc = "ret"
      /\ th[Main].ret = None
      /\ (k = 1 => Len(Calls) = 1)

\* A no-route failure on the second attempt, with attempts still left.
C3_Witness ==
  /\ Len(log) = 3
  /\ log[1].cls = "rate"
  /\ log[3].cls = "noroute"
  /\ th[Main].max_attempts = 4
  /\ th[Main].pc = "ret"

\* Every external call made so far by the invocation was rate limited.
AllRateLimited ==
  /\ Len(Calls) >= 1
  /\ \A k \in 1..Len(Calls) : Calls[k].cls = "rate"

\* C4: while every external call of an invocation fails with a rate limit,
\* the waits are non-decreasing and at most 15 s, and the invocation does
\* not return before max_attempts calls were made; it then returns None.
C4_RateLimitedPolicy ==
  AllRateLimited =>
    /\ \A k \in 1..Len(Sleeps) :
         /\ Sleeps[k].w <= BackoffCeiling
         /\ Sleeps[k].w >= BackoffStep
         /\ (k > 1 => Sleeps[k - 1].w <= Sleeps[k].w)
    /\ Len(Calls) <= th[Main].max_attempts
    /\ (th[Main].pc = "ret" =>
          /\ Len(Calls) = th[Main].max_attempts
          /\ th[Main].ret = None)

\* Four rate-limited attempts: the waits 5, 10, 15, 15, then None.
C4_Witness ==
  /\ AllRateLimited
  /\ th[Main].max_attempts = 4
  /\ th[Main].pc = "ret"
  /\ Len(Sleeps) = 4
  /\ Sleeps[3].w = BackoffCeiling

\* The call logged at position k is followed by a sleep of 2 s and then by
\* another external call.
RetriedAfterShortWait(k) ==
  /\ (k = Len(log) => (th[Main].pc = "sleep" /\ th[Main].wait = TransientWait))
  /\ (k < Len(log) => (log[k + 1].ev = "sleep" /\ log[k + 1].w = TransientWait))
  /\ (k + 1 = Len(log) => th[Main].pc = "call")
  /\ (k + 1 < Len(log) => log[k + 2].ev = "call")

\* C5 as stated: every failure that is neither a rate limit nor a no-route
\* failure (another ApiError, or an unexpected error) is followed by a short
\* fixed wait and another attempt while attempts are left.
C5_OtherFailuresRetried ==
  \A k \in 1..Len(log) :
    (/\ log[k].ev = "call"
     /\ log[k].cls \in {"other", "unexpected"}
     /\ CallsUpTo(k) < th[Main].max_attempts) => RetriedAfterShortWait(k)

\* C5 amended: an unexpected (non-ApiError) error is followed by a wait of
\* 2 s and another attempt while attempts are left; an ApiError that is
\* neither a rate limit nor a no-route failure ends the invocation at once
\* with None.
C5_UnexpectedRetriedOtherPermanent ==
  \A k \in 1..Len(log) :
    log[k].ev = "call" =>
      /\ (log[k].cls = "unexpected" /\ CallsUpTo(k) < th[Main].max_attempts)
           => RetriedAfterShortWait(k)
      /\ log[k].cls = "other" =>
           (k = Len(log) /\ th[Main].pc = "ret" /\ th[Main].ret = None)

\* An unexpected error that was retried, the retry ending with another
\* ApiError.
C5_Witness ==
  /\ Len(log) = 3
  /\ log[1].cls = "unexpected"
  /\ log[2].w = TransientWait
  /\ log[3].cls = "other"
  /\ th[Main].max_attempts = 3
  /\ th[Main].pc = "ret"

\* C6: a call of get_distance_truck that finds its key in the cache makes
\* no external call (it is never in a call or a backoff) and returns the
\* cached distance; once the build has applied that result, both cells of
\* the pair hold the cached distance.
C6_CacheHitShortCircuits ==
  \A k \in Items :
    th[k].hit =>
      /\ th[k].pc \in {"ret", "done", "raised"}
      /\ th[k].pc \in {"ret", "done"} =>
           /\ ItemKey(k) \in DOMAIN distance_cache
           /\ th[k].ret = distance_cache[ItemKey(k)]
      /\ (th[k].pc = "done" /\ Applied(k)) =>
           /\ dist_df[ItemPair(k)] = Num(distance_cache[ItemKey(k)])
           /\ dist_df[Twin(ItemPair(k))] = Num(distance_cache[ItemKey(k)])

\* A work item answered from the cache whose result is in the matrix.
C6_Witness ==
  \E k \in Items :
    /\ th[k].hit
    /\ th[k].pc = "done"
    /\ bpc = "collect"
    /\ k \in yielded
    /\ dist_df[ItemPair(k)] = Num(distance_cache[ItemKey(k)])

\* C7 as stated: the key an invocation computes does not depend on the
\* order of its two points, so no external call is made for (A, B) while
\* the cache holds an entry for (B, A).
C7_OrderIndependentKey ==
  LET f == th[Main]
  IN  f.pc # "idle" =>
        /\ KeyOf(f.a, f.b) = KeyOf(f.b, f.a)
        /\ f.pc = "call" => KeyOf(f.b, f.a) \notin DOMAIN distance_cache

\* A second run: the previous process ran its build to completion.
SecondRun == mode = "matrix" /\ run >= 2 /\ prev = "completed"

\* C8 as stated: the second run issues no external call, whatever happened
\* in the first run.
C8_SecondRunNoCalls == SecondRun => InFlight = {}

\* C8 amended: the second run issues an external call only for a pair that
\* the first run left unresolved in the partial file and for which the
\* cache file holds no entry.
C8_SecondRunCallsOnlyUnresolved ==
  SecondRun =>
    \A k \in InFlight :
      /\ partial_csv.exists
      /\ NeedsWork(FromCsv(partial_csv.cells[ItemPair(k)]))
      /\ ItemKey(k) \notin DOMAIN cache_file.data

\* A second run in which resolved cells were loaded and a call is in flight.
C8_Witness ==
  /\ SecondRun
  /\ InFlight # {}
  /\ \E p \in Idx \X Idx : dist_df[p].t = "str"

\* The steps of a build (everything but the start of a new process).
BuildStep ==
  \/ BuildStart
  \/ Submit
  \/ \E k \in Items : Take(k) \/ CacheCheck(k) \/ Call(k) \/ SleepDone(k)
  \/ \E k \in Items : Finish(k) \/ Collect(k)
  \/ Mirror
  \/ PeriodicSave
  \/ FinalSave
  \/ ExcelWrite
  \/ MapStart
  \/ \E k \in Items : RouteCheck(k) \/ RouteCall(k) \/ MapCollect(k)
  \/ MapFinal

\* Item k failed: its worker raised, or it returned "-".
Failed(k) == th[k].pc = "raised" \/ (th[k].pc = "done" /\ th[k].ret = None)

\* C9: a build is never stuck, and when it has returned every work item was
\* executed and handed to the main loop, and every item whose worker
\* returned a distance has it in both of its cells, whatever happened to
\* the other items.
C9_FailureIsolation ==
  /\ bpc \in {"submit", "collect", "mirror", "save", "excel"}
       => ENABLED BuildStep
  /\ (mode = "matrix" /\ bpc = "returned" /\ total > 0) =>
       \A k \in 1..total :
         /\ th[k].pc \in {"done", "raised"}
         /\ k \in yielded
         /\ (th[k].pc = "done" /\ th[k].ret # None) =>
              /\ dist_df[ItemPair(k)] = Num(th[k].ret)
              /\ dist_df[Twin(ItemPair(k))] = Num(th[k].ret)

\* A finished build with a failed item and, after it in the work list, an
\* item whose distance is in the matrix.
C9_Witness ==
  /\ mode = "matrix"
  /\ bpc = "returned"
  /\ \E k \in 1..total, j \in 1..total :
       /\ k < j
       /\ Failed(k)
       /\ th[j].pc = "done"
       /\ dist_df[ItemPair(j)] = Num(th[j].ret)

\* C10: in every snapshot on disk each cell equals its mirror cell.
C10_SnapshotAtomicity ==
  partial_csv.exists =>
    \A p \in Idx \X Idx : partial_csv.cells[p] = partial_csv.cells[Twin(p)]

\* A periodic snapshot, written while the first build still has results to
\* collect.
C10_Witness ==
  /\ run = 1
  /\ partial_csv.exists
  /\ bpc = "collect"
  /\ yielded # 1..total
  /\ \E p \in Idx \X Idx : partial_csv.cells[p].t = "number"

\* C11: the final write tries distance_matrix, distance_matrix_1,
\* distance_matrix_2, ... in this order, a name after the one before it was
\* found locked; it makes at most ExcelAttempts attempts, no name twice; the
\* first name found unlocked is written and ends the loop; and the loop does
\* not give up on locked names before ExcelAttempts attempts.
C11_LockFallback ==
  /\ Len(tried) <= ExcelAttempts
  /\ \A k \in 1..Len(tried) : tried[k].name = k - 1
  /\ \A k \in 1..Len(tried), j \in 1..Len(tried) :
       k # j => tried[k].name # tried[j].name
  /\ \A k \in 1..Len(tried) :
       ~tried[k].locked =>
         /\ k = Len(tried)
         /\ saved_as = tried[k].name
         /\ bpc = "returned"
  /\ saved_as # None =>
       \E k \in 1..Len(tried) : tried[k].name = saved_as /\ ~tried[k].locked
  /\ (bpc = "returned" /\ tried # <<>> /\ saved_as = None)
       => Len(tried) = ExcelAttempts

\* distance_matrix.xlsx and distance_matrix_1.xlsx were locked and the
\* matrix was written as distance_matrix_2.xlsx.
C11_Witness ==
  /\ bpc = "returned"
  /\ Len(tried) = 3
  /\ tried[1].locked
  /\ tried[2].locked
  /\ saved_as = 2

\* Every attempt of the final write found its target locked.
Exhausted ==
  /\ mode = "matrix"
  /\ bpc = "returned"
  /\ Len(tried) = ExcelAttempts
  /\ saved_as = None

\* C12 as stated: when every attempt of the final write found its target
\* locked, what the caller receives differs from what it receives from a
\* build with the same matrix whose artifact was written.
C12_ExhaustionSurfaced ==
  Exhausted =>
    \A name \in 0..(ExcelAttempts - 1) :
      ReturnValue(dist_df, saved_as) # ReturnValue(dist_df, name)

\* A cache file that is missing or cannot be parsed.
FileBad(file) == ~file.exists \/ ~file.valid

\* C13 as stated: a load that finds either cache file missing or corrupt
\* does not raise and leaves both in-memory caches empty.
C13_LoadNonFatal ==
  [][(/\ bpc = "start"
      /\ bpc' # "start"
      /\ FileBad(cache_file) \/ FileBad(route_file))
       => /\ bpc' # "crashed"
          /\ DOMAIN distance_cache' = {}
          /\ DOMAIN route_cache' = {}]_vars

\* Every entry of the dict `old` is in the dict `new`, with its value.
Kept(old, new) == \A k \in DOMAIN old : k \in DOMAIN new /\ new[k] = old[k]

\* C19 as stated: no step of a process removes or changes an entry of its
\* in-memory distance cache or route cache.
C19_AppendOnly ==
  [][Kept(distance_cache, distance_cache') /\ Kept(route_cache, route_cache')]_vars

\* One invocation of get_distance_truck has made no more than max_attempts
\* external calls, has slept only after a call, is at a line of the function
\* from which it can go on (no error has left it), and what it has returned
\* is a distance or None.
C14_Bounded ==
  /\ Len(Calls) <= th[Main].max_attempts
  /\ Len(Sleeps) <= Len(Calls)
  /\ th[Main].attempt <= th[Main].max_attempts
  /\ th[Main].pc \in {"idle", "check", "call", "sleep", "ret"}
  /\ th[Main].pc \in {"check", "call", "sleep"} => ENABLED ClientStep
  /\ th[Main].pc = "ret" => (th[Main].ret = None \/ th[Main].ret >= 0)

\* C14: whatever the service answers, an invocation of get_distance_truck
\* makes at most max_attempts external calls, never raises, and returns (a
\* distance or None).
C14_TerminatesTyped ==
  /\ []C14_Bounded
  /\ (th[Main].pc = "check") ~> (th[Main].pc = "ret")

\* An invocation that was rate limited, hit an unexpected error, was rate
\* limited again and returned None after its three attempts.
C14_Witness ==
  /\ th[Main].pc = "ret"
  /\ th[Main].max_attempts = 3
  /\ Len(Calls) = 3
  /\ Calls[1].cls = "rate"
  /\ Calls[2].cls = "unexpected"
  /\ Calls[3].cls = "rate"
  /\ th[Main].ret = None

\* C15 as stated: once the result of a failed work item of a matrix build
\* (its worker returned "-" or raised) has been collected, both cells of
\* its pair hold "-".
C15_FailedMarkedBoth ==
  mode = "matrix" =>
    \A k \in 1..total :
      (Failed(k) /\ Applied(k)) =>
        /\ dist_df[ItemPair(k)] = UNRES
        /\ dist_df[Twin(ItemPair(k))] = UNRES

\* Pair p comes before pair q in the order of the nested loops over the
\* name list.
Before(p, q) == p[1] < q[1] \/ (p[1] = q[1] /\ p[2] < q[2])

\* The main thread has built the work list and has not yet written a cell.
WorkListBuilt ==
  /\ mode = "matrix"
  /\ bpc = "submit" \/ (bpc = "returned" /\ total = 0)

\* C16: the work list holds exactly the pairs (i, j), i < j, whose cell
\* (i, j) of the loaded matrix is empty or "-", each once, in the order of
\* the name list, and no pair whose cell holds a distance.
C16_WorkListOnResume ==
  WorkListBuilt =>
    /\ \A i \in Idx, j \in Idx :
         (\E k \in 1..total : pairs_to_process[k] = <<i, j>>)
           <=> (i < j /\ dist_df[<<i, j>>].t \in {"nan", "-"})
    /\ \A k \in 1..total, l \in 1..total :
         k < l => Before(pairs_to_process[k], pairs_to_process[l])
    /\ \A k \in 1..total : ~IsNumeric(dist_df[pairs_to_process[k]])

\* A resumed build whose partial file held distances, a "-" and an empty
\* cell: the work list is shorter than the list of all pairs.
C16_Witness ==
  /\ WorkListBuilt
  /\ run = 2
  /\ total = 2
  /\ \E p \in Idx \X Idx : dist_df[p].t = "str"
  /\ \E k \in 1..total : dist_df[pairs_to_process[k]] = UNRES
  /\ \E k \in 1..total : dist_df[pairs_to_process[k]] = NaN

\* C17: no two entries of the work list are the same unordered pair; a
\* pool thread starts a work item at most once, and only an item that was
\* started has a result; the main loop gets the result of an item at most
\* once; when the loop is over every item of the work list was started
\* once and its result collected once.
C17_ExactlyOnce ==
  /\ \A k \in 1..total, l \in 1..total :
       k # l => {pairs_to_process[k][1], pairs_to_process[k][2]}
                  # {pairs_to_process[l][1], pairs_to_process[l][2]}
  /\ \A k \in Items :
       /\ taken[k] <= 1
       /\ applied[k] <= 1
       /\ taken[k] = 1 <=> th[k].pc \notin {"idle", "queued"}
       /\ applied[k] = 1 <=> k \in yielded
       /\ k \in yielded => th[k].pc \in {"done", "raised"}
       /\ k > total => (taken[k] = 0 /\ th[k].pc = "idle")
  /\ (bpc \in {"excel", "returned"}) =>
       \A k \in 1..total : taken[k] = 1 /\ applied[k] = 1

\* A matrix build with two pool threads that has worked through all the
\* pairs of the registry.
C17_Witness ==
  /\ mode = "matrix"
  /\ max_workers = 2
  /\ bpc = "returned"
  /\ total = MaxItems
  /\ \A k \in 1..total : taken[k] = 1 /\ applied[k] = 1

\* C18 as stated: while a matrix build collects results it has written one
\* snapshot for every SnapshotEvery work items completed so far, whatever
\* their outcome, and a build that has got to its end has written one
\* snapshot more, also when it found nothing to process.
C18_SnapshotCadence ==
  mode = "matrix" =>
    /\ bpc = "collect" => snapshots = Cardinality(yielded) \div SnapshotEvery
    /\ bpc \in {"excel", "returned"}
         => snapshots = (Cardinality(yielded) \div SnapshotEvery) + 1

\* The cache key of the pair of cell p, the point of the smaller index first.
CellKey(p) ==
  IF p[1] < p[2] THEN KeyOf(names[p[1]], names[p[2]])
  ELSE KeyOf(names[p[2]], names[p[1]])

\* C20: in a matrix build every cell that holds a distance written by this
\* build holds the distance the in-memory cache has under the key of its
\* pair (taken with i < j), and the cache has no entry for a pair whose
\* worker returned "-".
C20_MatrixCacheAgreement ==
  mode = "matrix" =>
    /\ \A p \in Idx \X Idx :
         dist_df[p].t = "float" =>
           /\ CellKey(p) \in DOMAIN distance_cache
           /\ dist_df[p] = Num(distance_cache[CellKey(p)])
    /\ \A k \in 1..total :
         (th[k].pc = "done" /\ th[k].ret = None) =>
           CellKey(pairs_to_process[k]) \notin DOMAIN distance_cache

\* A finished build with a pair that failed and is not in the cache, and a
\* pair whose distance is in both cells and in the cache.
C20_Witness ==
  /\ mode = "matrix"
  /\ bpc = "returned"
  /\ \E k \in 1..total :
       /\ th[k].pc = "done"
       /\ th[k].ret = None
       /\ dist_df[pairs_to_process[k]] = UNRES
  /\ \E p \in Idx \X Idx :
       /\ p[1] > p[2]
       /\ dist_df[p].t = "float"
       /\ dist_df[p].v = distance_cache[CellKey(p)]

====
